---- MODULE Spec2Model ----
(***************************************************************************)
(* Model of the shipment-tracking chat Worker (src/src/index.ts; the file  *)
(* src/unnamed/part_000 is the same program with another prompt text).     *)
(*                                                                         *)
(* fetch() routes a request to the static-asset binding, to                *)
(* handleChatRequest, or answers 405/404.  handleChatRequest parses the    *)
(* JSON body, prepends the system prompt when no message has role          *)
(* "system", sends the content of the last message to the retrieval        *)
(* binding and answers with the serialised result, or with a fixed 500     *)
(* body when anything inside its try block throws.                         *)
(*                                                                         *)
(* JavaScript values are tagged records; an object is the sequence of its  *)
(* <<key, value>> pairs in insertion order.  Each asynchronous suspension  *)
(* (ASSETS.fetch, request.json(), aiSearch) ends one action and starts the *)
(* next, so the actions are the units the event loop interleaves.          *)
(***************************************************************************)
EXTENDS Integers, Sequences, FiniteSets

(***************************************************************************)
(* Bounds of the model.                                                    *)
(***************************************************************************)
\* Number of requests that can be in flight at once.
NumRequests == 2

\* Longest transcript handed to the prompt injector in NormSpec.
MaxLen == 3

(***************************************************************************)
(* JavaScript values.                                                      *)
(***************************************************************************)
Undefined == [t |-> "undefined"]

Null == [t |-> "null"]

Str(s) == [t |-> "string", s |-> s]

Num(n) == [t |-> "number", n |-> n]

Arr(a) == [t |-> "array", a |-> a]

Obj(o) == [t |-> "object", o |-> o]

\* A completion of an evaluation: a value, or a thrown exception.
Ok(v) == [threw |-> FALSE, val |-> v]

Threw == [threw |-> TRUE]

\* Reading a property of null or undefined throws a TypeError.
CanRead(v) == v.t \notin {"undefined", "null"}

\* v.k for a readable v and a key k that no primitive or array owns.
Get(v, k) ==
  IF v.t = "object" /\ \E i \in 1..Len(v.o) : v.o[i][1] = k
  THEN v.o[CHOOSE i \in 1..Len(v.o) : v.o[i][1] = k][2]
  ELSE Undefined

\* The default system prompt: the template literal of src/src/index.ts, line
\* breaks included (src/unnamed/part_000 carries another wording of it).  A
\* string here holds ASCII only, so each of the literal's non-ASCII characters
\* (bullet, en dash, curly quotes) is written as its JSON escape, a backslash
\* followed by u and the four hex digits of its code point.
SYSTEM_PROMPT ==
  "\n"
  \o "You are an expert logistics and container tracking assistant for both businesses and consumers.\n"
  \o "Your mission is to provide users with clear, accurate, and helpful responses about their shipments,\n"
  \o "with special attention to shipment milestones, event timelines, and date formatting.\n"
  \o "\n"
  \o "TONE LOGIC:\n"
  \o "- If the user communicates in a professional manner or provides shipment numbers, ports, carrier codes,\n"
  \o "  references, or operational terminology, respond in a concise B2B professional tone suitable for logistics managers.\n"
  \o "- If the user asks casually or seems to be a package recipient, respond in a friendly, simplified tone\n"
  \o "  focused on peace of mind and clarity.\n"
  \o "\n"
  \o "DATETIME FORMATTING RULES:\n"
  \o "- Any raw timestamps (e.g. \"2025-05-11T15:00:00-06:00\") must be transformed into a fully readable human format:\n"
  \o "  Format: \"Wed, 11 May 2025 at 3:00 PM (UTC-6)\"\n"
  \o "- Always include:\n"
  \o "    \\u2022 Weekday\n"
  \o "    \\u2022 Day, abbreviated month, year\n"
  \o "    \\u2022 12-hour time with AM/PM\n"
  \o "    \\u2022 Timezone offset in parentheses\n"
  \o "- Preserve the provided timezone whenever possible.\n"
  \o "- Never show the original timestamp unless the user explicitly asks.\n"
  \o "\n"
  \o "STATUS HISTORY FORMATTING:\n"
  \o "When multiple milestone events exist, present them as a clean timeline:\n"
  \o "Example:\n"
  \o "  Status history:\n"
  \o "  1) Gate Out export at Shanghai, China\n"
  \o "     Thu, 20 Jun 2025 at 10:45 AM (UTC+8)\n"
  \o "  2) Loaded on Vessel \\u2013 EVER SMART\n"
  \o "     Fri, 21 Jun 2025 at 2:00 PM (UTC+8)\n"
  \o "  3) In-transit to Port of Los Angeles\n"
  \o "     Updated Sun, 23 Jun 2025 at 9:35 AM (UTC+8)\n"
  \o "\n"
  \o "TIMELINE RULES:\n"
  \o "- Sort by time, most recent first unless user requests chronological order.\n"
  \o "- If vessel name, port name, or location exists, show them.\n"
  \o "- If data is unavailable, clearly state what is missing.\n"
  \o "- Highlight ETA if available and indicate uncertainty if subject to change.\n"
  \o "\n"
  \o "RESPONSE RULES:\n"
  \o "- Focus on the latest known status and any impacts on ETA.\n"
  \o "- Avoid guessing or inventing logistics details.\n"
  \o "- Use established terminology: ETA, ETD, Discharged, Gate Out, Final Delivery, etc.\n"
  \o "- Clarify location hierarchy when possible: Terminal, Port, City, Country.\n"
  \o "- When data is stale or unclear, suggest checking for new updates or asking for a tracking number.\n"
  \o "\n"
  \o "GENERAL GUIDELINES:\n"
  \o "- Be helpful, confident, and context-aware.\n"
  \o "- Convert logistic jargon for casual users only if needed.\n"
  \o "- Describe event significance when beneficial (e.g., \\u201cLoaded on vessel means your container has left the origin port\\u201d).\n"
  \o "\n"
  \o "If the user asks general logistics questions:\n"
  \o "- Provide knowledge-based explanations without offering false specifics.\n"
  \o "\n"
  \o "Your highest priority is accuracy, clarity, and assisting the user in understanding their shipment\\u2019s progress.\n"

Message(role, content) == Obj(<< <<"role", Str(role)>>, <<"content", Str(content)>> >>)

\* The object literal of the unshift call.
SystemMessage == Message("system", SYSTEM_PROMPT)

(***************************************************************************)
(* handleChatRequest, the synchronous part between the two awaits.         *)
(***************************************************************************)
\* const { messages = [] } = parsed
Destructure(parsed) ==
  IF ~CanRead(parsed) THEN Threw
  ELSE LET m == Get(parsed, "messages")
       IN  Ok(IF m = Undefined THEN Arr(<<>>) ELSE m)

\* Array.prototype.some with the callback msg => msg.role === "system",
\* visiting a[i], a[i+1], ... and stopping at the first hit.
RECURSIVE SomeFrom(_, _)
SomeFrom(a, i) ==
  IF i > Len(a) THEN Ok(FALSE)
  ELSE IF ~CanRead(a[i]) THEN Threw
  ELSE IF Get(a[i], "role") = Str("system") THEN Ok(TRUE)
  ELSE SomeFrom(a, i + 1)

\* messages.some(...): only an array has a callable `some`.
SomeSystem(messages) ==
  IF messages.t # "array" THEN Threw ELSE SomeFrom(messages.a, 1)

\* messages.unshift(m), as the array it leaves behind.
Unshift(messages, m) == Arr(<<m>> \o messages.a)

\* The "add system prompt if not present" statement: the transcript afterwards.
normalizeMutPrepend(messages) ==
  LET s == SomeSystem(messages)
  IN  IF s.threw THEN Threw ELSE Ok(Unshift(messages, SystemMessage))

normalizeMutAppend(messages) ==
  LET s == SomeSystem(messages)
  IN  IF s.threw THEN Threw
      ELSE IF s.val THEN Ok(messages)
      ELSE Ok(Arr(messages.a \o <<SystemMessage>>))

normalize(messages) ==
  LET s == SomeSystem(messages)
  IN  IF s.threw THEN Threw
      ELSE IF s.val THEN Ok(messages)
      ELSE Ok(Unshift(messages, SystemMessage))

lastContentMutLastUser(messages) ==
  LET a == messages.a
      users == {i \in 1..Len(a) : CanRead(a[i]) /\ Get(a[i], "role") = Str("user")}
  IN  IF users = {} THEN Threw
      ELSE Ok(Get(a[CHOOSE i \in users : \A j \in users : j <= i], "content"))

\* messages[messages.length - 1].content
lastContent(messages) ==
  LET a == messages.a
  IN  IF Len(a) = 0 THEN Threw
      ELSE IF ~CanRead(a[Len(a)]) THEN Threw
      ELSE Ok(Get(a[Len(a)], "content"))

\* Lines 111-121 run on the parsed body: the normalised transcript and the
\* query handed to aiSearch, or a throw that the catch block receives.
prepareQuery(parsed) ==
  LET d == Destructure(parsed)
  IN  IF d.threw THEN Threw
      ELSE LET n == normalize(d.val)
           IN  IF n.threw THEN Threw
               ELSE LET q == lastContent(n.val)
                    IN  IF q.threw THEN Threw
                        ELSE Ok([messages |-> n.val, query |-> q.val])

(***************************************************************************)
(* JSON.stringify and the Response constructor.                            *)
(***************************************************************************)
Digits == <<"0", "1", "2", "3", "4", "5", "6", "7", "8", "9">>

\* Number.prototype.toString for a natural number.
RECURSIVE NumToString(_)
NumToString(n) ==
  IF n < 10 THEN Digits[n + 1]
  ELSE NumToString(n \div 10) \o Digits[(n % 10) + 1]

\* JSON.stringify(v) for a value other than undefined whose strings need no
\* escaping: an undefined array element prints as null, an undefined property
\* is left out.
RECURSIVE JSONstringify(_)
RECURSIVE StringifyElements(_, _)
RECURSIVE StringifyMembers(_, _, _)
StringifyElements(a, i) ==
  IF i > Len(a) THEN ""
  ELSE (IF i > 1 THEN "," ELSE "")
       \o (IF a[i] = Undefined THEN "null" ELSE JSONstringify(a[i]))
       \o StringifyElements(a, i + 1)

StringifyMembers(o, i, first) ==
  IF i > Len(o) THEN ""
  ELSE IF o[i][2] = Undefined THEN StringifyMembers(o, i + 1, first)
  ELSE (IF first THEN "" ELSE ",")
       \o "\"" \o o[i][1] \o "\":" \o JSONstringify(o[i][2])
       \o StringifyMembers(o, i + 1, FALSE)

JSONstringify(v) ==
  CASE v.t = "null" -> "null"
    [] v.t = "string" -> "\"" \o v.s \o "\""
    [] v.t = "number" -> NumToString(v.n)
    [] v.t = "array" -> "[" \o StringifyElements(v.a, 1) \o "]"
    [] v.t = "object" -> "{" \o StringifyMembers(v.o, 1, TRUE) \o "}"

\* new Response(body, init) with a string body: the status defaults to 200 and
\* the content type to that of a string body.
NewResponse(body, init) ==
  [status |-> IF "status" \in DOMAIN init THEN init.status ELSE 200,
   contentType |-> IF "contentType" \in DOMAIN init THEN init.contentType
                   ELSE "text/plain;charset=UTF-8",
   body |-> body]

successResponseMutWrapped(response) ==
  NewResponse(JSONstringify(Obj(<< <<"response", response>> >>)),
              [contentType |-> "application/json"])

\* The return statement of the try block.
successResponse(response) ==
  NewResponse(JSONstringify(response), [contentType |-> "application/json"])

errorResponseMutLeaksDetail ==
  NewResponse(JSONstringify(Obj(<< <<"error", Str("TypeError")>> >>)),
              [status |-> 500, contentType |-> "application/json"])

\* The return statement of the catch block.
errorResponse ==
  NewResponse(JSONstringify(Obj(<< <<"error", Str("Failed to process request")>> >>)),
              [status |-> 500, contentType |-> "application/json"])

methodNotAllowedResponse == NewResponse("Method not allowed", [status |-> 405])

notFoundResponse == NewResponse("Not found", [status |-> 404])

(***************************************************************************)
(* Inputs: requests, and what the collaborators can answer.                *)
(***************************************************************************)
Q1 == "Where is container ABC123?"

Q2 == "And when does it arrive?"

A1 == "Container ABC123 was discharged at Rotterdam."

CallerPrompt == "Answer in one sentence."

\* A request body, by what request.json() makes of it.
InvalidJson == [valid |-> FALSE]

Json(v) == [valid |-> TRUE, value |-> v]

WithMessages(m) == Json(Obj(<< <<"messages", m>> >>))

\* Bodies whose `messages` is absent or a sequence of well-formed messages.
TranscriptBodies ==
  { Json(Obj(<<>>)),
    Json(Num(5)),
    WithMessages(Arr(<<>>)),
    WithMessages(Arr(<<Message("user", Q1)>>)),
    WithMessages(Arr(<<Message("user", Q1), Message("assistant", A1)>>)),
    WithMessages(Arr(<<Message("user", Q1), Message("assistant", A1), Message("user", Q2)>>)),
    WithMessages(Arr(<<Message("system", CallerPrompt), Message("user", Q1)>>)),
    WithMessages(Arr(<<Message("user", Q1), Message("system", CallerPrompt)>>)),
    WithMessages(Arr(<<Message("user", "")>>)) }

\* Bodies that are valid JSON of another shape.
OddBodies ==
  { Json(Null),
    WithMessages(Null),
    WithMessages(Str("hi")),
    WithMessages(Arr(<<Null>>)),
    WithMessages(Arr(<<Message("system", CallerPrompt), Null>>)),
    WithMessages(Arr(<<Num(5)>>)),
    WithMessages(Arr(<<Obj(<< <<"role", Str("user")>> >>)>>)),
    WithMessages(Arr(<<Obj(<< <<"role", Str("user")>>, <<"content", Num(42)>> >>)>>)) }

ChatBodies == {InvalidJson} \cup TranscriptBodies \cup OddBodies

\* The body sent along with a request on another route: none with GET (its
\* json() would reject), a chat body with any other method.
OtherBody(method) ==
  IF method = "GET" THEN InvalidJson ELSE WithMessages(Arr(<<Message("user", Q1)>>))

Methods == {"GET", "POST"}

Paths == {"/", "/index.html", "/api", "/api/", "/api/chat", "/api/unknown"}

Request(method, pathname, body) == [method |-> method, pathname |-> pathname, body |-> body]

RequestInputs ==
  {Request("POST", "/api/chat", b) : b \in ChatBodies}
  \cup {Request(m, p, OtherBody(m)) : m \in Methods, p \in Paths}
  \cup {Request("GET", "/api/chat", WithMessages(Arr(<<Message("user", Q1)>>)))}

\* What aiSearch can resolve with.
SearchResults ==
  { Obj(<< <<"answer", Str("...")>> >>),
    Obj(<< <<"response", Str(A1)>>, <<"data", Arr(<<Obj(<< <<"score", Num(1)>> >>)>>)>> >>) }

\* What the static-asset binding can resolve with.
AssetResponses ==
  { [status |-> 200, contentType |-> "text/html", body |-> "<!doctype html>"],
    [status |-> 404, contentType |-> "text/html", body |-> "<h1>No such page</h1>"] }

(***************************************************************************)
(* State.                                                                  *)
(***************************************************************************)
VARIABLES
  pc,           \* per request: where its handler is suspended
  request,      \* per request: the Request handed to fetch()
  result,       \* per request: how the promise returned by fetch() settled
  returned,     \* per request: number of Response objects the handler returned
  messages,     \* per request: the local `messages` of handleChatRequest
  bodyReads,    \* per request: number of request.json() calls
  ragCalls,     \* per request: the queries passed to aiSearch, in order
  ragOutcome,   \* per request: how the aiSearch promise settled
  assetCalls,   \* per request: the requests passed to env.ASSETS.fetch
  assetOutcome, \* per request: how the env.ASSETS.fetch promise settled
  diagnostics,  \* per request: number of console.error calls
  transcript,   \* NormSpec: the transcript given to the prompt injector
  normalized    \* NormSpec: what the prompt injector made of it

mediatorVars ==
  <<pc, request, result, returned, messages, bodyReads, ragCalls, ragOutcome,
    assetCalls, assetOutcome, diagnostics>>

normVars == <<transcript, normalized>>

vars == <<mediatorVars, normVars>>

Requests == 1..NumRequests

NoRequest == [method |-> "", pathname |-> "", body |-> InvalidJson]

Pending == [kind |-> "pending"]

Rejected == [kind |-> "rejected"]

Responded(response) == [kind |-> "response", response |-> response]

Resolved(value) == [kind |-> "resolved", value |-> value]

NotApplied == [applied |-> FALSE]

MediatorInit ==
  /\ pc = [r \in Requests |-> "idle"]
  /\ request = [r \in Requests |-> NoRequest]
  /\ result = [r \in Requests |-> Pending]
  /\ returned = [r \in Requests |-> 0]
  /\ messages = [r \in Requests |-> Undefined]
  /\ bodyReads = [r \in Requests |-> 0]
  /\ ragCalls = [r \in Requests |-> <<>>]
  /\ ragOutcome = [r \in Requests |-> Pending]
  /\ assetCalls = [r \in Requests |-> <<>>]
  /\ assetOutcome = [r \in Requests |-> Pending]
  /\ diagnostics = [r \in Requests |-> 0]

Init ==
  /\ MediatorInit
  /\ transcript = Arr(<<>>)
  /\ normalized = NotApplied

(***************************************************************************)
(* fetch(): the router.                                                    *)
(***************************************************************************)
\* String.prototype.startsWith
StartsWith(s, prefix) ==
  Len(s) >= Len(prefix) /\ SubSeq(s, 1, Len(prefix)) = prefix

isStaticAssetMutPrefixOnly(pathname) == ~StartsWith(pathname, "/api")

\* The condition of the first if of fetch().
isStaticAsset(pathname) == pathname = "/" \/ ~StartsWith(pathname, "/api/")

\* The handler returns `response`: its promise resolves with it.
Return(r, response) ==
  /\ result' = [result EXCEPT ![r] = Responded(response)]
  /\ returned' = [returned EXCEPT ![r] = @ + 1]
  /\ pc' = [pc EXCEPT ![r] = "done"]

CatchMutRethrow(r) ==
  /\ diagnostics' = [diagnostics EXCEPT ![r] = @ + 1]
  /\ result' = [result EXCEPT ![r] = Rejected]
  /\ pc' = [pc EXCEPT ![r] = "done"]
  /\ UNCHANGED returned

\* The catch block of handleChatRequest.
Catch(r) ==
  /\ diagnostics' = [diagnostics EXCEPT ![r] = @ + 1]
  /\ Return(r, errorResponse)

\* The runtime calls fetch(req) for the next request; fetch runs to its first
\* suspension or to its return.
Fetch(r, req) ==
  /\ pc[r] = "idle"
  /\ \A q \in Requests : q < r => pc[q] # "idle"
  /\ request' = [request EXCEPT ![r] = req]
  /\ IF isStaticAsset(req.pathname)
     THEN /\ assetCalls' = [assetCalls EXCEPT ![r] = Append(@, req)]
          /\ pc' = [pc EXCEPT ![r] = "assets"]
          /\ UNCHANGED <<result, returned, bodyReads>>
     ELSE IF req.pathname = "/api/chat"
     THEN IF req.method = "POST"
          THEN /\ bodyReads' = [bodyReads EXCEPT ![r] = @ + 1]
               /\ pc' = [pc EXCEPT ![r] = "json"]
               /\ UNCHANGED <<result, returned, assetCalls>>
          ELSE /\ Return(r, methodNotAllowedResponse)
               /\ UNCHANGED <<bodyReads, assetCalls>>
     ELSE /\ Return(r, notFoundResponse)
          /\ UNCHANGED <<bodyReads, assetCalls>>
  /\ UNCHANGED <<messages, ragCalls, ragOutcome, assetOutcome, diagnostics, normVars>>

\* env.ASSETS.fetch resolves: fetch() returned that promise, so the response
\* is the handler's.
AssetsResolve(r, response) ==
  /\ pc[r] = "assets"
  /\ assetOutcome' = [assetOutcome EXCEPT ![r] = Resolved(response)]
  /\ Return(r, response)
  /\ UNCHANGED <<request, messages, bodyReads, ragCalls, ragOutcome, assetCalls,
                 diagnostics, normVars>>

\* env.ASSETS.fetch rejects: no handler is attached, the promise of fetch()
\* rejects with it.
AssetsReject(r) ==
  /\ pc[r] = "assets"
  /\ assetOutcome' = [assetOutcome EXCEPT ![r] = Rejected]
  /\ result' = [result EXCEPT ![r] = Rejected]
  /\ pc' = [pc EXCEPT ![r] = "done"]
  /\ UNCHANGED <<request, returned, messages, bodyReads, ragCalls, ragOutcome,
                 assetCalls, diagnostics, normVars>>

(***************************************************************************)
(* handleChatRequest.                                                      *)
(***************************************************************************)
\* request.json(): the promise resolves with the parsed value or rejects.
RequestJson(body) == IF body.valid THEN Ok(body.value) ELSE Threw

requestOfMutShared(r) ==
  request[CHOOSE q \in Requests :
            /\ pc[q] # "idle"
            /\ \A p \in Requests : pc[p] # "idle" => p <= q]

\* The `request` parameter of the invocation that serves request r.
requestOf(r) == request[r]

\* request.json() rejects: control enters the catch block.
JsonRejects(r) ==
  /\ pc[r] = "json"
  /\ RequestJson(requestOf(r).body).threw
  /\ Catch(r)
  /\ UNCHANGED <<request, messages, bodyReads, ragCalls, ragOutcome, assetCalls,
                 assetOutcome, normVars>>

\* request.json() resolves: lines 111-121 run up to the await of aiSearch, or
\* throw into the catch block.
JsonResolves(r) ==
  /\ pc[r] = "json"
  /\ ~RequestJson(requestOf(r).body).threw
  /\ LET p == prepareQuery(RequestJson(requestOf(r).body).val)
     IN  IF p.threw
         THEN /\ Catch(r)
              /\ UNCHANGED <<messages, ragCalls>>
         ELSE /\ messages' = [messages EXCEPT ![r] = p.val.messages]
              /\ ragCalls' = [ragCalls EXCEPT ![r] = Append(@, p.val.query)]
              /\ pc' = [pc EXCEPT ![r] = "aiSearch"]
              /\ UNCHANGED <<result, returned, diagnostics>>
  /\ UNCHANGED <<request, bodyReads, ragOutcome, assetCalls, assetOutcome, normVars>>

\* aiSearch resolves with `response`: the try block returns.
AiSearchResolves(r, response) ==
  /\ pc[r] = "aiSearch"
  /\ ragOutcome' = [ragOutcome EXCEPT ![r] = Resolved(response)]
  /\ Return(r, successResponse(response))
  /\ UNCHANGED <<request, messages, bodyReads, ragCalls, assetCalls, assetOutcome,
                 diagnostics, normVars>>

AiSearchRejectsMutRetry(r) ==
  /\ pc[r] = "aiSearch"
  /\ Len(ragCalls[r]) < 3
  /\ ragCalls' = [ragCalls EXCEPT ![r] = Append(@, @[1])]
  /\ UNCHANGED <<pc, request, result, returned, messages, bodyReads, ragOutcome,
                 assetCalls, assetOutcome, diagnostics, normVars>>

\* aiSearch rejects: control enters the catch block.
AiSearchRejects(r) ==
  /\ pc[r] = "aiSearch"
  /\ ragOutcome' = [ragOutcome EXCEPT ![r] = Rejected]
  /\ Catch(r)
  /\ UNCHANGED <<request, messages, bodyReads, ragCalls, assetCalls, assetOutcome,
                 normVars>>

Next ==
  \/ \E r \in Requests, req \in RequestInputs : Fetch(r, req)
  \/ \E r \in Requests, response \in AssetResponses : AssetsResolve(r, response)
  \/ \E r \in Requests : AssetsReject(r)
  \/ \E r \in Requests : JsonRejects(r)
  \/ \E r \in Requests : JsonResolves(r)
  \/ \E r \in Requests, response \in SearchResults : AiSearchResolves(r, response)
  \/ \E r \in Requests : AiSearchRejects(r)

Spec == Init /\ [][Next]_vars

(***************************************************************************)
(* The prompt injector on its own: every transcript of up to MaxLen        *)
(* messages over the three roles.                                          *)
(***************************************************************************)
Roles == {"system", "user", "assistant"}

Contents == {Q1, CallerPrompt}

ChatMessages == {Message(role, content) : role \in Roles, content \in Contents}

Transcripts ==
  {Arr(a) : a \in UNION {[1..n -> ChatMessages] : n \in 0..MaxLen}}

NormInit ==
  /\ MediatorInit
  /\ transcript \in Transcripts
  /\ normalized = NotApplied

Normalize ==
  /\ normalized = NotApplied
  /\ normalized' = [applied |-> TRUE, out |-> normalize(transcript)]
  /\ UNCHANGED <<transcript, mediatorVars>>

NormNext == Normalize

NormSpec == NormInit /\ [][NormNext]_vars

(***************************************************************************)
(* Properties of the prompt injector (checked under NormSpec).             *)
(***************************************************************************)
HasSystem(a) == \E i \in 1..Len(a) : a[i].o[1] = <<"role", Str("system")>>

\* C1: a transcript in which no message has role system normalises to the
\* canonical system message followed by the original messages in their
\* order, one element longer; the empty transcript normalises to the system
\* message alone.
C1_InjectsWhenNoSystem ==
  (normalized.applied /\ ~HasSystem(transcript.a)) =>
    /\ ~normalized.out.threw
    /\ LET orig == transcript.a
           out == normalized.out.val.a
       IN  /\ Len(out) = Len(orig) + 1
           /\ out[1] = Obj(<< <<"role", Str("system")>>, <<"content", Str(SYSTEM_PROMPT)>> >>)
           /\ \A i \in 1..Len(orig) : out[i + 1] = orig[i]
           /\ (orig = <<>> => out = <<SystemMessage>>)

C1_Witness ==
  /\ normalized.applied
  /\ transcript = Arr(<<Message("user", Q1), Message("assistant", CallerPrompt)>>)
  /\ normalized.out.val.a[1] = SystemMessage
  /\ Len(normalized.out.val.a) = 3

\* C2: a transcript that holds a system message, wherever and however often,
\* comes back as the same sequence; nothing is injected.
C2_UnchangedWhenSystemPresent ==
  (normalized.applied /\ HasSystem(transcript.a)) =>
    /\ ~normalized.out.threw
    /\ normalized.out.val = transcript

C2_Witness ==
  /\ normalized.applied
  /\ transcript = Arr(<<Message("user", Q1), Message("system", CallerPrompt),
                        Message("system", Q1)>>)
  /\ normalized.out.val = transcript

(***************************************************************************)
(* Properties of the router and the mediator (checked under Spec).         *)
(***************************************************************************)
Arrived(r) == pc[r] # "idle"

Done(r) == pc[r] = "done"

IsPassthrough(req) == req.pathname = "/" \/ ~StartsWith(req.pathname, "/api/")

IsChatPost(req) == req.pathname = "/api/chat" /\ req.method = "POST"

JsonResponse(status, body) ==
  [status |-> status, contentType |-> "application/json", body |-> body]

GenericFailure == JsonResponse(500, "{\"error\":\"Failed to process request\"}")

Untouched(r) ==
  /\ bodyReads[r] = 0
  /\ ragCalls[r] = <<>>
  /\ diagnostics[r] = 0

\* C3: the route table.  A path that is "/" or does not begin with "/api/"
\* goes, with the request as received, to the static-asset binding, whose
\* response is the handler's; POST /api/chat goes to the mediator; /api/chat
\* with another method is answered 405 "Method not allowed"; every other
\* path under /api/ is answered 404 "Not found"; on the passthrough, 405 and
\* 404 routes the body is not read, the retrieval binding is not called and
\* nothing is logged.
C3_RouteTable ==
  \A r \in Requests : Arrived(r) =>
    LET req == request[r]
    IN  IF IsPassthrough(req)
        THEN /\ assetCalls[r] = <<req>>
             /\ Untouched(r)
             /\ assetOutcome[r].kind = "resolved" => result[r] = Responded(assetOutcome[r].value)
             /\ result[r].kind = "response" => assetOutcome[r].kind = "resolved"
        ELSE /\ assetCalls[r] = <<>>
             /\ IF req.pathname = "/api/chat"
                THEN IF req.method = "POST"
                     THEN bodyReads[r] = 1
                     ELSE /\ Done(r)
                          /\ result[r].kind = "response"
                          /\ result[r].response.status = 405
                          /\ result[r].response.body = "Method not allowed"
                          /\ StartsWith(result[r].response.contentType, "text/plain")
                          /\ Untouched(r)
                ELSE /\ Done(r)
                     /\ result[r].kind = "response"
                     /\ result[r].response.status = 404
                     /\ result[r].response.body = "Not found"
                     /\ StartsWith(result[r].response.contentType, "text/plain")
                     /\ Untouched(r)

C3_Witness ==
  /\ request[1].pathname = "/api" /\ request[1].method = "POST"
  /\ Done(1) /\ result[1].kind = "response" /\ result[1].response.status = 200
  /\ request[2].pathname = "/api/chat" /\ request[2].method = "GET"
  /\ Done(2) /\ result[2].response.status = 405

\* The body parses to an object whose `messages` is absent or a sequence of
\* messages: objects with a role among the three and a string content.
IsMessage(v) ==
  /\ v.t = "object"
  /\ Len(v.o) = 2
  /\ v.o[1][1] = "role" /\ v.o[1][2] \in {Str(role) : role \in Roles}
  /\ v.o[2][1] = "content" /\ v.o[2][2].t = "string"

IsTranscriptBody(body) ==
  /\ body.valid
  /\ body.value.t = "object"
  /\ \/ body.value.o = <<>>
     \/ /\ Len(body.value.o) = 1
        /\ body.value.o[1][1] = "messages"
        /\ body.value.o[1][2].t = "array"
        /\ \A i \in 1..Len(body.value.o[1][2].a) : IsMessage(body.value.o[1][2].a[i])

SuppliedMessages(body) ==
  IF body.value.o = <<>> THEN <<>> ELSE body.value.o[1][2].a

\* C4: for POST /api/chat with such a body the retrieval binding is called
\* with the content of the last element of the normalised transcript,
\* whatever its role: the trailing message's content when the caller sent
\* messages, the injected prompt when `messages` is absent or empty.
C4_QueryIsLastContent ==
  \A r \in Requests :
    (IsChatPost(request[r]) /\ IsTranscriptBody(request[r].body)
       /\ pc[r] \in {"aiSearch", "done"}) =>
      LET given == SuppliedMessages(request[r].body)
      IN  /\ Len(ragCalls[r]) = 1
          /\ given # <<>> => ragCalls[r][1] = given[Len(given)].o[2][2]
          /\ given = <<>> => ragCalls[r][1] = Str(SYSTEM_PROMPT)
          /\ messages[r].a # <<>>
          /\ ragCalls[r][1] = messages[r].a[Len(messages[r].a)].o[2][2]

C4_Witness ==
  /\ request[1] = Request("POST", "/api/chat",
                          WithMessages(Arr(<<Message("user", Q1), Message("assistant", A1)>>)))
  /\ ragCalls[1] = <<Str(A1)>>
  /\ request[2] = Request("POST", "/api/chat", Json(Obj(<<>>)))
  /\ ragCalls[2] = <<Str(SYSTEM_PROMPT)>>

\* C5: when the retrieval call of a request resolves with R, the response is
\* status 200, content-type application/json, and its body is the JSON text
\* of R and nothing else.
C5_SuccessResponse ==
  \A r \in Requests : ragOutcome[r].kind = "resolved" =>
    /\ result[r] = Responded(JsonResponse(200, JSONstringify(ragOutcome[r].value)))
    /\ ragOutcome[r].value = Obj(<< <<"answer", Str("...")>> >>)
         => result[r].response.body = "{\"answer\":\"...\"}"

C5_Witness ==
  /\ request[1].body = WithMessages(Arr(<<Message("user", Q1)>>))
  /\ ragCalls[1] = <<Str(Q1)>>
  /\ ragOutcome[1] = Resolved(Obj(<< <<"answer", Str("...")>> >>))
  /\ result[1].response.status = 200
  /\ result[1].response.body = "{\"answer\":\"...\"}"

\* C6: a POST /api/chat request whose handling fails at any step (the body
\* does not parse, the parsed value cannot be used, the retrieval call
\* rejects) is answered 500, application/json, with exactly the generic error
\* body, and one diagnostic is recorded for it; a request that succeeds, or
\* is still being handled, has recorded none.
C6_UniformFailure ==
  \A r \in Requests : IsChatPost(request[r]) =>
    /\ (Done(r) /\ ragOutcome[r].kind # "resolved") =>
         /\ result[r] = Responded(GenericFailure)
         /\ diagnostics[r] = 1
    /\ (~request[r].body.valid /\ Done(r)) => ragOutcome[r].kind = "pending"
    /\ ragOutcome[r].kind = "rejected" => Done(r)
    /\ (~Done(r) \/ ragOutcome[r].kind = "resolved") => diagnostics[r] = 0

C6_Witness ==
  /\ request[1] = Request("POST", "/api/chat", InvalidJson)
  /\ result[1] = Responded(GenericFailure) /\ diagnostics[1] = 1
  /\ request[2] = Request("POST", "/api/chat", WithMessages(Arr(<<Message("user", Q1)>>)))
  /\ ragOutcome[2] = Rejected
  /\ result[2] = Responded(GenericFailure) /\ diagnostics[2] = 1

\* C7 as stated: on every route and for every collaborator failure the
\* handler ends by returning a response; nothing is thrown to the runtime.
C7_NothingEscapes ==
  \A r \in Requests : Done(r) => result[r].kind = "response"

\* C7 amended: a request that is not passed to the static-asset binding
\* always ends with a response, whatever fails; a passed-through request ends
\* as the static-asset call ends, so that call's rejection, and only it,
\* reaches the runtime.
C7_OnlyAssetFailureEscapes ==
  \A r \in Requests :
    /\ (Done(r) /\ ~IsPassthrough(request[r])) => result[r].kind = "response"
    /\ (Done(r) /\ IsPassthrough(request[r])) =>
         (result[r].kind = "rejected" <=> assetOutcome[r] = Rejected)
    /\ ~Done(r) => result[r] = Pending

C7_Witness ==
  /\ IsPassthrough(request[1]) /\ Done(1) /\ result[1] = Rejected
  /\ IsChatPost(request[2]) /\ Done(2) /\ ragOutcome[2] = Rejected
  /\ result[2].kind = "response"

\* C8 as stated: every query the retrieval binding receives is a non-empty
\* string.
C8_QueryIsNonEmptyString ==
  \A r \in Requests : \A i \in 1..Len(ragCalls[r]) :
    ragCalls[r][i].t = "string" /\ ragCalls[r][i].s # ""

\* C9: one request makes at most one retrieval call, none when parsing or
\* normalisation fails and none after a failure; while the call is
\* outstanding no response exists; a request that the handler answers is
\* answered exactly once, a failed attempt by the one failure response.
C9_SingleAttempt ==
  \A r \in Requests :
    /\ Len(ragCalls[r]) <= 1
    /\ returned[r] <= 1
    /\ (~request[r].body.valid \/ Get(request[r].body.value, "messages").t
          \in {"null", "string", "number", "object"}) => ragCalls[r] = <<>>
    /\ pc[r] = "aiSearch" =>
         /\ Len(ragCalls[r]) = 1
         /\ ragOutcome[r] = Pending
         /\ result[r] = Pending
         /\ returned[r] = 0
    /\ (Done(r) /\ ragCalls[r] # <<>>) => ragOutcome[r] # Pending
    /\ (Done(r) /\ assetOutcome[r] # Rejected) =>
         /\ returned[r] = 1
         /\ result[r].kind = "response"
    /\ ragOutcome[r] = Rejected =>
         /\ Done(r)
         /\ result[r] = Responded(GenericFailure)

C9_Witness ==
  /\ Done(1) /\ ragOutcome[1] = Rejected
  /\ Len(ragCalls[1]) = 1 /\ returned[1] = 1
  /\ result[1].response.status = 500

\* What request r alone determines: the transcript and query from its body,
\* the response from its body and the outcome of its own retrieval call.
OwnHandling(r) ==
  LET parsed == RequestJson(request[r].body)
      p == IF parsed.threw THEN Threw ELSE prepareQuery(parsed.val)
  IN  IF pc[r] = "json"
      THEN messages[r] = Undefined /\ ragCalls[r] = <<>> /\ result[r] = Pending
      ELSE IF p.threw
      THEN /\ messages[r] = Undefined /\ ragCalls[r] = <<>>
           /\ result[r] = Responded(GenericFailure)
      ELSE /\ messages[r] = p.val.messages
           /\ ragCalls[r] = <<p.val.query>>
           /\ result[r] = CASE ragOutcome[r].kind = "pending" -> Pending
                            [] ragOutcome[r].kind = "rejected" -> Responded(GenericFailure)
                            [] ragOutcome[r].kind = "resolved" ->
                                 Responded(JsonResponse(200, JSONstringify(ragOutcome[r].value)))

StateOf(r) ==
  <<pc[r], request[r], result[r], returned[r], messages[r], bodyReads[r],
    ragCalls[r], ragOutcome[r], assetCalls[r], assetOutcome[r], diagnostics[r]>>

\* C10: with several requests in flight and their calls completing in any
\* order, the transcript, query and response of each request are those its
\* own body and its own retrieval outcome determine, and a step of one
\* request leaves every other request's state as it was.
C10_RequestsIndependent ==
  /\ [](\A r \in Requests : (Arrived(r) /\ IsChatPost(request[r])) => OwnHandling(r))
  /\ [][\E r \in Requests : \A q \in Requests \ {r} : StateOf(q)' = StateOf(q)]_vars

C10_Witness ==
  /\ pc[1] = "aiSearch" /\ ragCalls[1] = <<Str(Q1)>>
  /\ request[2].body = Json(Obj(<<>>))
  /\ Done(2) /\ ragCalls[2] = <<Str(SYSTEM_PROMPT)>>
  /\ result[2].kind = "response" /\ result[2].response.status = 200

====
